---- MODULE Spec2Model ----
(***************************************************************************)
(* A model of the pokedex repository layer (src/src/repositories/pokemon.rs)*)
(* and of the use cases that call it (src/src/domain/*.rs).                 *)
(*                                                                          *)
(* One behaviour runs one backend, chosen at startup (build_repo).  Callers *)
(* issue use-case calls with raw request fields; a use case validates the   *)
(* fields, calls the repository and maps the repository's result.           *)
(***************************************************************************)
EXTENDS Integers, Sequences, FiniteSets, TLC

\* ------------------------------------------------------------------ bounds

\* Raw request numbers range over 0..MaxNumber (0 is the invalid one).
MaxNumber == 2

\* Callers (threads, one per inbound request) are 1..NumCallers.
NumCallers == 2

\* The remote table holds at most MaxRecords rows in the model.
MaxRecords == 3

\* ------------------------------------------------------------- raw inputs

RawNumbers == 0..MaxNumber

\* The name and types a create request carries: two that pass validation and
\* three that fail it (empty name, no type, a type outside the vocabulary).
GoodFields == {[name |-> "Pikachu", types |-> <<"Electric">>],
               [name |-> "Charmander", types |-> <<"Fire", "Electric">>]}

BadFields == {[name |-> "", types |-> <<"Electric">>],
              [name |-> "Pikachu", types |-> <<>>],
              [name |-> "Pikachu", types |-> <<"Fire", "Water">>]}

Callers == 1..NumCallers

NoCaller == 0

\* The mutex, free, after a caller panicked while it held the guard.
Poisoned == 0 - 1

\* ---------------------------------------------------------- value objects
\* domain/entities.rs is not among the source files: the constructors follow
\* the specification (section 4.1), the accessors are their inverses.

\* The fixed vocabulary of type tags; a PokemonType is an index into it.
Vocabulary == <<"Electric", "Fire">>

\* PokemonNumber::try_from(u16): 0 is rejected.
NumberTryFrom(n) ==
    IF n # 0 THEN [ok |-> TRUE, val |-> [u16 |-> n]]
             ELSE [ok |-> FALSE, val |-> [u16 |-> 0]]

\* u16::from(PokemonNumber)
U16From(number) == number.u16

\* PokemonName::try_from(String): the empty string is rejected.
NameTryFrom(s) ==
    IF s # "" THEN [ok |-> TRUE, val |-> [string |-> s]]
              ELSE [ok |-> FALSE, val |-> [string |-> ""]]

\* String::from(PokemonName)
StringFrom(name) == name.string

\* PokemonType::try_from(String): a tag outside the vocabulary is rejected.
TypeTryFrom(s) ==
    IF \E i \in DOMAIN Vocabulary : Vocabulary[i] = s
    THEN [ok |-> TRUE, val |-> CHOOSE i \in DOMAIN Vocabulary : Vocabulary[i] = s]
    ELSE [ok |-> FALSE, val |-> 0]

\* String::from(PokemonType)
TypeToString(t) == Vocabulary[t]

\* PokemonTypes::try_from(Vec<String>): the empty list and any list holding a
\* tag outside the vocabulary are rejected; the tags keep their order.
TypesTryFrom(ts) ==
    IF ts # <<>> /\ \A i \in DOMAIN ts : TypeTryFrom(ts[i]).ok
    THEN [ok |-> TRUE,
          val |-> [tags |-> [i \in DOMAIN ts |-> TypeTryFrom(ts[i]).val]]]
    ELSE [ok |-> FALSE, val |-> [tags |-> <<>>]]

\* Vec::<String>::from(PokemonTypes)
VecFrom(types) == [i \in DOMAIN types.tags |-> TypeToString(types.tags[i])]

\* Pokemon::new(number, name, types)
PokemonNew(number, name, types) ==
    [number |-> number, name |-> name, types |-> types]

\* ------------------------------------------------------- repository results

\* Result<_, _> of a repository operation: tag is "Ok" or the error's name,
\* val the sequence of Pokemon returned (empty for an error and for ()).
Result(tag, val) == [tag |-> tag, val |-> val]

Err(tag) == Result(tag, <<>>)

\* What an operation leaves behind: its result and the new storage.
Outcome(res, store) == [res |-> res, store |-> store]

\* A sequence without its element at index i (Vec::remove(i)).
RemoveAt(s, i) == [j \in 1..(Len(s) - 1) |-> IF j < i THEN s[j] ELSE s[j + 1]]

\* ------------------------------------------------------- in-memory backend

\* The index of the first pokemon of the list with this number, 0 when there
\* is none: lock.iter().find(..) in fetch_one, lock.iter().position(..) in delete.
Position(list, number) ==
    IF \E i \in DOMAIN list : U16From(list[i].number) = U16From(number)
    THEN CHOOSE i \in DOMAIN list :
             /\ U16From(list[i].number) = U16From(number)
             /\ \A j \in 1..(i - 1) : U16From(list[j].number) # U16From(number)
    ELSE 0

\* A scan that compares only the first stored pokemon.
InMemoryHasNumberFirstOnly(list, number) ==
    list # <<>> /\ U16From(list[1].number) = U16From(number)

\* lock.iter().any(|pokemon| pokemon.number == number)
InMemoryHasNumber(list, number) ==
    \E i \in DOMAIN list : U16From(list[i].number) = U16From(number)

\* An insert that overwrites the stored pokemon before it reports the conflict.
InMemoryInsertReplacing(list, number, name, types) ==
    IF InMemoryHasNumber(list, number)
    THEN Outcome(Err("Conflict"),
                 [i \in DOMAIN list |->
                     IF U16From(list[i].number) = U16From(number)
                     THEN PokemonNew(number, name, types) ELSE list[i]])
    ELSE Outcome(Result("Ok", <<PokemonNew(number, name, types)>>),
                 Append(list, PokemonNew(number, name, types)))

\* An insert that puts the new pokemon in front of the stored ones.
InMemoryInsertFront(list, number, name, types) ==
    IF InMemoryHasNumber(list, number)
    THEN Outcome(Err("Conflict"), list)
    ELSE Outcome(Result("Ok", <<PokemonNew(number, name, types)>>),
                 <<PokemonNew(number, name, types)>> \o list)

\* InMemoryRepository::insert, under the lock.
InMemoryInsert(list, number, name, types) ==
    IF InMemoryHasNumber(list, number)
    THEN Outcome(Err("Conflict"), list)
    ELSE Outcome(Result("Ok", <<PokemonNew(number, name, types)>>),
                 Append(list, PokemonNew(number, name, types)))

\* Insertion of p into a list sorted by number, after every element that does
\* not compare greater (the sort is stable).
RECURSIVE SortedInsert(_, _)
SortedInsert(sorted, p) ==
    IF sorted = <<>> THEN <<p>>
    ELSE IF U16From(p.number) < U16From(Head(sorted).number)
         THEN <<p>> \o sorted
         ELSE <<Head(sorted)>> \o SortedInsert(Tail(sorted), p)

\* pokemons.sort_by(|a, b| a.number.cmp(&b.number))
RECURSIVE SortByNumber(_)
SortByNumber(list) ==
    IF list = <<>> THEN <<>>
    ELSE SortedInsert(SortByNumber(SubSeq(list, 1, Len(list) - 1)), list[Len(list)])

\* A fetch_all that returns the copy without sorting it.
InMemoryFetchAllUnsorted(list) ==
    Outcome(Result("Ok", list), list)

\* A fetch_all that sorts the guarded list itself.
InMemoryFetchAllInPlace(list) ==
    Outcome(Result("Ok", SortByNumber(list)), SortByNumber(list))

\* InMemoryRepository::fetch_all, under the lock: a sorted copy.
InMemoryFetchAll(list) ==
    Outcome(Result("Ok", SortByNumber(list)), list)

\* InMemoryRepository::fetch_one, under the lock.
InMemoryFetchOne(list, number) ==
    LET i == Position(list, number)
    IN  IF i # 0 THEN Outcome(Result("Ok", <<list[i]>>), list)
                 ELSE Outcome(Err("NotFound"), list)

\* A delete that finds the pokemon and reports Ok without removing it.
InMemoryDeleteKeeping(list, number) ==
    LET index == Position(list, number)
    IN  IF index = 0 THEN Outcome(Err("NotFound"), list)
                     ELSE Outcome(Result("Ok", <<>>), list)

\* InMemoryRepository::delete, under the lock.
InMemoryDelete(list, number) ==
    LET index == Position(list, number)
    IN  IF index = 0 THEN Outcome(Err("NotFound"), list)
                     ELSE Outcome(Result("Ok", <<>>), RemoveAt(list, index))

\* ------------------------------------------------------ relational backend
\* The database holds two tables.  pokemons: rows [number, name], number the
\* INTEGER PRIMARY KEY, so the table is kept and scanned in ascending number.
\* types: rows [pokemon_number, name] in insertion order.

\* A fault is the one driver call of a repository call that fails.
Fault(site, row, k) == [site |-> site, row |-> row, k |-> k]

NoFault == Fault("none", 0, 0)

Database(pokemonRows, typeRows) == [pokemons |-> pokemonRows, types |-> typeRows]

\* The rows of a table that satisfy the where clause, in table order.
RECURSIVE Where(_, _, _)
Where(rows, field, value) ==
    IF rows = <<>> THEN <<>>
    ELSE IF Head(rows)[field] = value
         THEN <<Head(rows)>> \o Where(Tail(rows), field, value)
         ELSE Where(Tail(rows), field, value)

\* The primary key of pokemons: a second row with the same number is refused
\* with "UNIQUE constraint failed: pokemons.number".
SqliteUniqueViolation(db, n) == \E i \in DOMAIN db.pokemons : db.pokemons[i].number = n

\* The single faults an insert of number n with these tags can meet: the
\* statements after the pokemons row are reached only when the row is accepted.
SqliteInsertFaults(db, n, tags) ==
    {NoFault, Fault("transaction", 0, 0), Fault("row", 0, 0)}
        \cup IF SqliteUniqueViolation(db, n) THEN {}
             ELSE {Fault("commit", 0, 0)} \cup {Fault("type", 0, k) : k \in DOMAIN tags}

\* A table that keeps its rows in the order of their insertion.
SqliteInsertRowAppended(rows, row) == Append(rows, row)

\* "insert into pokemons (number, name) values (?, ?)": the row takes its place
\* in ascending number.
RECURSIVE SqliteInsertRow(_, _)
SqliteInsertRow(rows, row) ==
    IF rows = <<>> THEN <<row>>
    ELSE IF row.number < Head(rows).number
         THEN <<row>> \o rows
         ELSE <<Head(rows)>> \o SqliteInsertRow(Tail(rows), row)

\* The first upto iterations of the loop "for _type in Vec::<String>::from(types)":
\* one "insert into types (pokemon_number, name) values (?, ?)" each.
SqliteInsertTypes(typeRows, n, tags, upto) ==
    typeRows \o [i \in 1..upto |-> [pokemon_number |-> n, name |-> tags[i]]]

\* A transaction whose writes stay in the database when it is dropped.
SqliteRollbackKeeping(db, tx) == tx

\* A transaction dropped before commit() is rolled back: the database is as
\* it was when the transaction began.
SqliteRollback(db, tx) == db

\* transaction.commit()
SqliteCommit(db, tx) == tx

\* An insert whose test of the driver's message never matches, so that the
\* UNIQUE failure is reported as Unknown.
SqliteInsertMessageUnmatched(db, number, name, types, fault) ==
    LET n == U16From(number)
        tags == VecFrom(types)
        withRow == Database(SqliteInsertRow(db.pokemons, [number |-> n, name |-> StringFrom(name)]),
                            db.types)
        tx == Database(withRow.pokemons, SqliteInsertTypes(db.types, n, tags, Len(tags)))
    IN  IF fault.site # "none" \/ SqliteUniqueViolation(db, n)
        THEN Outcome(Err("Unknown"), SqliteRollback(db, db))
        ELSE Outcome(Result("Ok", <<PokemonNew(number, name, types)>>), SqliteCommit(db, tx))

\* SqliteRepository::insert, under the lock.
SqliteInsert(db, number, name, types, fault) ==
    LET n == U16From(number)
        tags == VecFrom(types)
        withRow == Database(SqliteInsertRow(db.pokemons, [number |-> n, name |-> StringFrom(name)]),
                            db.types)
        partial == Database(withRow.pokemons,
                            SqliteInsertTypes(db.types, n, tags, fault.k - 1))
        tx == Database(withRow.pokemons, SqliteInsertTypes(db.types, n, tags, Len(tags)))
    IN  IF fault.site = "transaction" THEN Outcome(Err("Unknown"), db)
        ELSE IF fault.site = "row" THEN Outcome(Err("Unknown"), SqliteRollback(db, db))
        ELSE IF SqliteUniqueViolation(db, n)
             THEN Outcome(Err("Conflict"), SqliteRollback(db, db))
        ELSE IF fault.site = "type" THEN Outcome(Err("Unknown"), SqliteRollback(db, partial))
        ELSE IF fault.site = "commit" THEN Outcome(Err("Unknown"), SqliteRollback(db, tx))
        ELSE Outcome(Result("Ok", <<PokemonNew(number, name, types)>>), SqliteCommit(db, tx))

\* SqliteRepository::fetch_pokemon_rows: filter is <<>> (None) or <<n>> (Some(n)).
\* The loop "while let Ok(Some(row)) = rows.next()" ends at the first step
\* that fails, and the rows read so far are returned as Ok.
SqliteFetchPokemonRows(db, filter, fault) ==
    LET matching == IF filter = <<>> THEN db.pokemons
                    ELSE Where(db.pokemons, "number", filter[1])
    IN  IF fault.site \in {"rows.prepare", "rows.query"}
        THEN [ok |-> FALSE, rows |-> <<>>]
        ELSE IF fault.site = "rows.step"
             THEN [ok |-> TRUE, rows |-> SubSeq(matching, 1, fault.k - 1)]
             ELSE [ok |-> TRUE, rows |-> matching]

\* SqliteRepository::fetch_type_rows, with the same loop.
SqliteFetchTypeRows(db, n, fault) ==
    LET matching == Where(db.types, "pokemon_number", n)
        names == [i \in DOMAIN matching |-> matching[i].name]
    IN  IF fault.site \in {"types.prepare", "types.query"}
        THEN [ok |-> FALSE, rows |-> <<>>]
        ELSE IF fault.site = "types.step"
             THEN [ok |-> TRUE, rows |-> SubSeq(names, 1, fault.k - 1)]
             ELSE [ok |-> TRUE, rows |-> names]

\* The match on the three try_from results that builds a Pokemon from stored
\* primitives; ok is FALSE when any of them fails.
PokemonTryFrom(n, name, tags) ==
    IF NumberTryFrom(n).ok /\ NameTryFrom(name).ok /\ TypesTryFrom(tags).ok
    THEN [ok |-> TRUE,
          val |-> PokemonNew(NumberTryFrom(n).val, NameTryFrom(name).val,
                             TypesTryFrom(tags).val)]
    ELSE [ok |-> FALSE, val |-> PokemonNew(NumberTryFrom(0).val, NameTryFrom("").val,
                                           TypesTryFrom(<<>>).val)]

\* The number of tag rows of pokemon n.
SqliteTypeCount(db, n) == Len(Where(db.types, "pokemon_number", n))

\* The single faults a read of these pokemon rows can meet: in the rows
\* query, or in the types query of one of the rows.
SqliteFetchFaults(db, filter) ==
    LET rows == SqliteFetchPokemonRows(db, filter, NoFault).rows
        considered == IF filter = <<>> THEN DOMAIN rows ELSE DOMAIN rows \cap {1}
    IN  {NoFault, Fault("rows.prepare", 0, 0), Fault("rows.query", 0, 0)}
            \cup {Fault("rows.step", 0, k) : k \in 1..(Len(rows) + 1)}
            \cup {Fault(site, j, 0) : site \in {"types.prepare", "types.query"}, j \in considered}
            \cup UNION {{Fault("types.step", j, k) :
                            k \in 1..(SqliteTypeCount(db, rows[j].number) + 1)} :
                        j \in considered}

\* One iteration of the assembly loop for the row at index j.
SqliteAssemble(db, rows, j, fault) ==
    LET typeRows == SqliteFetchTypeRows(db, rows[j].number,
                                        IF fault.row = j THEN fault ELSE NoFault)
    IN  IF ~typeRows.ok THEN [ok |-> FALSE, val |-> PokemonTryFrom(0, "", <<>>).val]
        ELSE PokemonTryFrom(rows[j].number, rows[j].name, typeRows.rows)

\* SqliteRepository::fetch_all, under the lock.
SqliteFetchAll(db, fault) ==
    LET pokemonRows == SqliteFetchPokemonRows(db, <<>>, fault)
        rows == pokemonRows.rows
    IN  IF ~pokemonRows.ok THEN Outcome(Err("Unknown"), db)
        ELSE IF \E j \in DOMAIN rows : ~SqliteAssemble(db, rows, j, fault).ok
             THEN Outcome(Err("Unknown"), db)
             ELSE Outcome(Result("Ok", [j \in DOMAIN rows |->
                                            SqliteAssemble(db, rows, j, fault).val]), db)

\* SqliteRepository::fetch_one, under the lock.
SqliteFetchOne(db, number, fault) ==
    LET pokemonRows == SqliteFetchPokemonRows(db, <<U16From(number)>>, fault)
        rows == pokemonRows.rows
    IN  IF ~pokemonRows.ok THEN Outcome(Err("Unknown"), db)
        ELSE IF rows = <<>> THEN Outcome(Err("NotFound"), db)
        ELSE IF ~SqliteAssemble(db, rows, 1, fault).ok THEN Outcome(Err("Unknown"), db)
        ELSE Outcome(Result("Ok", <<SqliteAssemble(db, rows, 1, fault).val>>), db)

\* A foreign key that is not enforced: the types rows stay.
SqliteCascadeNone(typeRows, n) == typeRows

\* The foreign key of types with foreign_keys = 1: deleting a pokemons row
\* removes the types rows that reference it.
RECURSIVE SqliteCascade(_, _)
SqliteCascade(typeRows, n) ==
    IF typeRows = <<>> THEN <<>>
    ELSE IF Head(typeRows).pokemon_number = n
         THEN SqliteCascade(Tail(typeRows), n)
         ELSE <<Head(typeRows)>> \o SqliteCascade(Tail(typeRows), n)

\* The single faults a delete can meet.
SqliteDeleteFaults == {NoFault, Fault("execute", 0, 0)}

\* The rows of pokemons left by "delete from pokemons where number = ?".
RECURSIVE SqliteDeleteRows(_, _)
SqliteDeleteRows(rows, n) ==
    IF rows = <<>> THEN <<>>
    ELSE IF Head(rows).number = n
         THEN SqliteDeleteRows(Tail(rows), n)
         ELSE <<Head(rows)>> \o SqliteDeleteRows(Tail(rows), n)

\* A delete that does not look at the count of rows the statement affected.
SqliteDeleteUncounted(db, number, fault) ==
    LET n == U16From(number)
    IN  IF fault.site = "execute" THEN Outcome(Err("Unknown"), db)
        ELSE Outcome(Result("Ok", <<>>),
                     Database(SqliteDeleteRows(db.pokemons, n), SqliteCascade(db.types, n)))

\* SqliteRepository::delete, under the lock: the statement and the count of
\* rows it affected.
SqliteDelete(db, number, fault) ==
    LET n == U16From(number)
        affected == Len(Where(db.pokemons, "number", n))
    IN  IF fault.site = "execute" THEN Outcome(Err("Unknown"), db)
        ELSE IF affected = 0 THEN Outcome(Err("NotFound"), db)
        ELSE Outcome(Result("Ok", <<>>),
                     Database(SqliteDeleteRows(db.pokemons, n), SqliteCascade(db.types, n)))

\* ---------------------------------------------------------- remote backend
\* The remote table is a sequence of records [id, fields], fields being
\* [number, name, types] in primitive form.  Every HTTP call either succeeds
\* (ok) or fails (network failure, error status, body that does not parse).

\* The records a GET returns: those whose number matches the filter formula,
\* in table order (filter <<n>>), or all of them sorted by number (filter <<>>).
RECURSIVE AirtableSorted(_)
AirtableSorted(records) ==
    IF records = <<>> THEN <<>>
    ELSE LET rest == AirtableSorted(SubSeq(records, 1, Len(records) - 1))
             r == records[Len(records)]
             before == SelectSeq(rest, LAMBDA x : x.fields.number <= r.fields.number)
             after == SelectSeq(rest, LAMBDA x : x.fields.number > r.fields.number)
         IN  before \o <<r>> \o after

\* A GET whose URL carries no sort parameter: the table comes in its own order.
AirtableFetchPokemonRowsUnsorted(records, filter, ok) ==
    IF ~ok THEN [ok |-> FALSE, records |-> <<>>]
    ELSE IF filter = <<>> THEN [ok |-> TRUE, records |-> records]
    ELSE [ok |-> TRUE,
          records |-> SelectSeq(records, LAMBDA r : r.fields.number = filter[1])]

\* AirtableRepository::fetch_pokemon_rows
AirtableFetchPokemonRows(records, filter, ok) ==
    IF ~ok THEN [ok |-> FALSE, records |-> <<>>]
    ELSE IF filter = <<>> THEN [ok |-> TRUE, records |-> AirtableSorted(records)]
    ELSE [ok |-> TRUE,
          records |-> SelectSeq(records, LAMBDA r : r.fields.number = filter[1])]

\* The body of the POST: one record with the fields in primitive form.
AirtableBody(number, name, types) ==
    [number |-> U16From(number), name |-> StringFrom(name), types |-> VecFrom(types)]

\* The remote side of the POST: the record is appended under a new id.
AirtableCreate(records, id, fields) == Append(records, [id |-> id, fields |-> fields])

\* A removal that takes every record with the number of the record id names.
AirtableRemoveNumber(records, id) ==
    SelectSeq(records, LAMBDA r : \A i \in DOMAIN records :
                                    records[i].id = id => r.fields.number # records[i].fields.number)

\* The remote side of DELETE {url}/{id}: the record with that id is removed.
AirtableRemove(records, id) == SelectSeq(records, LAMBDA r : r.id # id)

\* The match on the three try_from results over a record's fields.
AirtableParse(record) ==
    PokemonTryFrom(record.fields.number, record.fields.name, record.fields.types)

\* AirtableRepository::fetch_all
AirtableFetchAll(records, ok) ==
    LET json == AirtableFetchPokemonRows(records, <<>>, ok)
    IN  IF ~json.ok THEN Outcome(Err("Unknown"), records)
        ELSE IF \E i \in DOMAIN json.records : ~AirtableParse(json.records[i]).ok
             THEN Outcome(Err("Unknown"), records)
             ELSE Outcome(Result("Ok", [i \in DOMAIN json.records |->
                                           AirtableParse(json.records[i]).val]), records)

\* AirtableRepository::fetch_one
AirtableFetchOne(records, number, ok) ==
    LET json == AirtableFetchPokemonRows(records, <<U16From(number)>>, ok)
    IN  IF ~json.ok THEN Outcome(Err("Unknown"), records)
        ELSE IF json.records = <<>> THEN Outcome(Err("NotFound"), records)
        ELSE IF ~AirtableParse(json.records[1]).ok THEN Outcome(Err("Unknown"), records)
        ELSE Outcome(Result("Ok", <<AirtableParse(json.records[1]).val>>), records)

\* --------------------------------------------------------------- use cases
\* A request is [number, name, types] in primitive form; fetch_one and delete
\* use only its number, fetch_all none of it.

NoReq == [number |-> 0, name |-> "", types |-> <<>>]

Operations == {"create", "fetch_one", "fetch_all", "delete"}

Requests(op) ==
    IF op = "create"
    THEN {[number |-> n, name |-> f.name, types |-> f.types] :
             n \in RawNumbers, f \in GoodFields \cup BadFields}
    ELSE IF op = "fetch_all" THEN {NoReq}
    ELSE [number : RawNumbers, name : {""}, types : {<<>>}]

\* A validation that leaves the types out.
CreateRequestTypesUnchecked(req) ==
    NumberTryFrom(req.number).ok /\ NameTryFrom(req.name).ok

\* A validation that checks the number only.
CreateRequestNumberValid(req) == NumberTryFrom(req.number).ok

\* create_pokemon::execute: the match on the three try_from results.
CreateRequestValid(req) ==
    NumberTryFrom(req.number).ok /\ NameTryFrom(req.name).ok /\ TypesTryFrom(req.types).ok

\* fetch_pokemon::execute: the match on PokemonNumber::try_from.
FetchRequestValid(req) == NumberTryFrom(req.number).ok

\* delete_pokemon::execute (domain/delete_pokemon.rs is not among the source
\* files): the number is validated as in fetch_pokemon::execute.
DeleteRequestValid(req) == NumberTryFrom(req.number).ok

RequestValid(op, req) ==
    CASE op = "create" -> CreateRequestValid(req)
      [] op = "fetch_one" -> FetchRequestValid(req)
      [] op = "delete" -> DeleteRequestValid(req)
      [] op = "fetch_all" -> TRUE

\* The value objects a valid request is turned into.
NumberOf(req) == NumberTryFrom(req.number).val

NameOf(req) == NameTryFrom(req.name).val

TypesOf(req) == TypesTryFrom(req.types).val

\* Response { number: u16::from(..), name: String::from(..), types: Vec::from(..) }
Response(p) ==
    [number |-> U16From(p.number), name |-> StringFrom(p.name), types |-> VecFrom(p.types)]

\* The arm of every execute that is taken when a try_from fails.
BadRequest == Err("BadRequest")

\* The repository was not called.
NotCalled == Err("NotCalled")

\* create_pokemon::execute: the match on repo.insert's result.
CreateExecute(res) ==
    IF res.tag = "Ok" THEN Result("Ok", <<Response(res.val[1])>>)
    ELSE IF res.tag = "Conflict" THEN Err("Conflict")
    ELSE Err("Unknown")

\* A mapping that has no arm for NotFound.
FetchExecuteNotFoundLost(res) ==
    IF res.tag = "Ok" THEN Result("Ok", <<Response(res.val[1])>>)
    ELSE Err("Unknown")

\* fetch_pokemon::execute: the match on repo.fetch_one's result.
FetchExecute(res) ==
    IF res.tag = "Ok" THEN Result("Ok", <<Response(res.val[1])>>)
    ELSE IF res.tag = "NotFound" THEN Err("NotFound")
    ELSE Err("Unknown")

\* fetch_all_pokemons::execute: the match on repo.fetch_all's result.
FetchAllExecute(res) ==
    IF res.tag = "Ok" THEN Result("Ok", [i \in DOMAIN res.val |-> Response(res.val[i])])
    ELSE Err("Unknown")

\* delete_pokemon::execute: the match on repo.delete's result, as its callers
\* (api/delete_pokemon.rs, cli/delete_pokemon.rs) read it.
DeleteExecute(res) ==
    IF res.tag = "Ok" THEN Result("Ok", <<>>)
    ELSE IF res.tag = "NotFound" THEN Err("NotFound")
    ELSE Err("Unknown")

\* What the use case op returns for the repository result res.
Execute(op, res) ==
    CASE op = "create" -> CreateExecute(res)
      [] op = "fetch_one" -> FetchExecute(res)
      [] op = "fetch_all" -> FetchAllExecute(res)
      [] op = "delete" -> DeleteExecute(res)

\* ------------------------------------------------------------------- state

VARIABLES
    args,       \* the command line: what --sqlite and --airtable were given
    backend,    \* the repository build_repo selected
    error,      \* InMemoryRepository.error
    pokemons,   \* InMemoryRepository.pokemons, the guarded Vec<Pokemon>
    database,   \* the tables behind SqliteRepository.connection
    records,    \* the remote table behind AirtableRepository.url
    mutex,      \* the caller holding the Mutex (of pokemons or of connection)
    call,       \* per caller: where it is in its call, and the call's locals
    last,       \* history: the use-case call that returned last, until a call starts
                \* or the repository is rebuilt with error injection
    created,    \* history: per number, the request of the last successful create
                \* that no successful delete followed (<<>> when there is none)
    deleted     \* history: the numbers whose last successful change is a delete

vars == <<args, backend, error, pokemons, database, records, mutex, call, last, created, deleted>>

Backends == {"InMemory", "Sqlite", "Airtable"}

\* matches.value_of("sqlite"): <<>> is None, <<path>> is Some(path).
SqliteValues == {<<>>, <<"pokedex.db">>, <<"missing.db">>}

\* matches.values_of("airtable"): <<>> is None, otherwise the values given.
AirtableValues == {<<>>, <<"key">>, <<"key", "workspace">>, <<"key", "nowhere">>}

CommandLines == [sqlite : SqliteValues, airtable : AirtableValues]

\* The argument "airtable" is declared with two value names: the parser
\* accepts it with exactly two values and otherwise ends the process with a
\* usage error.
ParserAccepts(matches) == Len(matches.airtable) \in {0, 2}

\* SqliteRepository::try_new(path) returns Ok: the file opens read-write and
\* the pragma runs.
SqliteTryNew(path) == path = "pokedex.db"

\* AirtableRepository::try_new(api_key, workspace_id) returns Ok: the probing
\* GET succeeds.
AirtableTryNew(api_key, workspace_id) == workspace_id = "workspace"

\* A build_repo that goes on to the next backend when a construction fails.
BuildRepoFallingBack(sqlite_value, airtable_values) ==
    IF Len(airtable_values) = 2 /\ AirtableTryNew(airtable_values[1], airtable_values[2])
    THEN "Airtable"
    ELSE IF sqlite_value # <<>> /\ SqliteTryNew(sqlite_value[1])
         THEN "Sqlite"
         ELSE "InMemory"

\* build_repo: the backend it returns, or "Panic".
BuildRepo(sqlite_value, airtable_values) ==
    IF airtable_values # <<>> /\ Len(airtable_values) = 2
    THEN IF AirtableTryNew(airtable_values[1], airtable_values[2])
         THEN "Airtable" ELSE "Panic"
    ELSE IF sqlite_value # <<>>
         THEN IF SqliteTryNew(sqlite_value[1]) THEN "Sqlite" ELSE "Panic"
         ELSE "InMemory"

\* A command line on which build_repo returns the backend b.
Launched(b) ==
    CASE b = "InMemory" -> [sqlite |-> <<>>, airtable |-> <<>>]
      [] b = "Sqlite" -> [sqlite |-> <<"pokedex.db">>, airtable |-> <<>>]
      [] b = "Airtable" -> [sqlite |-> <<>>, airtable |-> <<"key", "workspace">>]

\* No record has the id NoId.
NoId == <<0, 0>>

\* A caller between calls.  During a call: op and req are the call, existed
\* what the caller saw of its number, id the record a remote delete aims at,
\* rows and got the record rows a relational fetch_all read and the pokemons
\* it has assembled from them.
Idle == [pc |-> "idle", op |-> "none", req |-> NoReq, existed |-> FALSE, id |-> NoId,
         rows |-> <<>>, got |-> <<>>]

\* The storage of the selected backend.
Store ==
    CASE backend = "InMemory" -> pokemons
      [] backend = "Sqlite" -> database
      [] backend = "Airtable" -> records

\* The numbers of the records the selected backend stores.
StoredNumbers ==
    CASE backend = "InMemory" -> {U16From(pokemons[i].number) : i \in DOMAIN pokemons}
      [] backend = "Sqlite" -> {database.pokemons[i].number : i \in DOMAIN database.pokemons}
      [] backend = "Airtable" -> {records[i].fields.number : i \in DOMAIN records}

\* No call has returned since the last one started.
NoLast == [op |-> "none", req |-> NoReq, repo |-> NotCalled, ret |-> NotCalled,
           before |-> <<>>, existed |-> FALSE, clean |-> TRUE, wasDeleted |-> FALSE]

\* build_repo, then InMemoryRepository::new / SqliteRepository::try_new /
\* AirtableRepository::try_new: every backend starts without records.
Init ==
    /\ backend \in Backends
    /\ args = Launched(backend)
    /\ error = FALSE
    /\ pokemons = <<>>
    /\ database = Database(<<>>, <<>>)
    /\ records = <<>>
    /\ mutex = NoCaller
    /\ call = [t \in Callers |-> Idle]
    /\ last = NoLast
    /\ created = [n \in 1..MaxNumber |-> <<>>]
    /\ deleted = {}

\* The call (op, req) of caller t returns: res is the repository's result
\* (NotCalled when the request was refused), existed whether the number was
\* stored when the repository was called, clean whether no driver call, HTTP
\* call or injected error failed.
Return(t, op, req, res, existed, clean) ==
    LET ret == IF res = NotCalled THEN BadRequest ELSE Execute(op, res)
        n == req.number
    IN  /\ last' = [op |-> op, req |-> req, repo |-> res, ret |-> ret,
                    before |-> Store, existed |-> existed, clean |-> clean,
                    wasDeleted |-> n \in deleted]
        /\ created' = IF ret.tag = "Ok" /\ op = "create" THEN [created EXCEPT ![n] = <<req>>]
                      ELSE IF ret.tag = "Ok" /\ op = "delete" THEN [created EXCEPT ![n] = <<>>]
                      ELSE created
        /\ deleted' = IF ret.tag = "Ok" /\ op = "create" THEN deleted \ {n}
                      ELSE IF ret.tag = "Ok" /\ op = "delete" THEN deleted \cup {n}
                      ELSE deleted
        /\ call' = [call EXCEPT ![t] = Idle]

\* ----------------------------------------------------------------- actions

\* A use case refuses a request that fails validation, without calling the
\* repository.
Refuse(t, op, req) ==
    /\ call[t].pc = "idle"
    /\ ~RequestValid(op, req)
    /\ Return(t, op, req, NotCalled, req.number \in StoredNumbers, TRUE)
    /\ UNCHANGED <<args, backend, error, pokemons, database, records, mutex>>

\* InMemoryRepository::with_error (a test-only builder that consumes the
\* repository, so no call is under way).
WithError ==
    /\ backend = "InMemory"
    /\ ~error
    /\ mutex = NoCaller
    /\ \A t \in Callers : call[t].pc = "idle"
    /\ error' = TRUE
    /\ last' = NoLast
    /\ UNCHANGED <<args, backend, pokemons, database, records, mutex, call, created, deleted>>

\* An error test that delete does not make.
ErrorInjectedExceptDelete(op) == error /\ op # "delete"

\* The test "if self.error" that opens the operation op of InMemoryRepository.
ErrorInjected(op) == error

\* The operation op of InMemoryRepository with error injection on:
\* "return Err(..::Unknown)" before the lock is taken.
InMemoryError(t, op, req) ==
    /\ backend = "InMemory"
    /\ call[t].pc = "idle"
    /\ RequestValid(op, req)
    /\ ErrorInjected(op)
    /\ Return(t, op, req, Err("Unknown"), req.number \in StoredNumbers, FALSE)
    /\ UNCHANGED <<args, backend, error, pokemons, database, records, mutex>>

\* self.pokemons.lock() / self.connection.lock(): the caller waits until the
\* mutex is free and takes it.
Lock(t, op, req) ==
    /\ backend \in {"InMemory", "Sqlite"}
    /\ call[t].pc = "idle"
    /\ RequestValid(op, req)
    /\ backend = "InMemory" => ~ErrorInjected(op)
    /\ mutex = NoCaller
    /\ mutex' = t
    /\ call' = [call EXCEPT ![t] = [Idle EXCEPT !.pc = "locked", !.op = op, !.req = req]]
    /\ last' = NoLast
    /\ UNCHANGED <<args, backend, error, pokemons, database, records, created, deleted>>

\* A caller enters the operation op of InMemoryRepository or SqliteRepository
\* and reaches self.pokemons.lock() / self.connection.lock(), where it waits; existed records whether its number
\* was stored at that moment.
Invoke(t, op, req) ==
    /\ backend \in {"InMemory", "Sqlite"}
    /\ call[t].pc = "idle"
    /\ RequestValid(op, req)
    /\ ~ErrorInjected(op)
    /\ call' = [call EXCEPT ![t] = [Idle EXCEPT !.pc = "waiting", !.op = op, !.req = req,
                                                !.existed = req.number \in StoredNumbers]]
    /\ UNCHANGED <<args, backend, error, pokemons, database, records, mutex, last, created, deleted>>

\* The same entry, for callers that are only followed from the lock on:
\* what the caller saw of its number is not recorded.
Enter(t, op, req) ==
    /\ backend \in {"InMemory", "Sqlite"}
    /\ call[t].pc = "idle"
    /\ RequestValid(op, req)
    /\ ~ErrorInjected(op)
    /\ call' = [call EXCEPT ![t] = [Idle EXCEPT !.pc = "waiting", !.op = op, !.req = req]]
    /\ last' = NoLast
    /\ UNCHANGED <<args, backend, error, pokemons, database, records, mutex, created, deleted>>

\* self.pokemons.lock() returns to a waiting caller: the mutex was free and
\* is now held by it.
Acquire(t) ==
    /\ backend \in {"InMemory", "Sqlite"}
    /\ call[t].pc = "waiting"
    /\ mutex = NoCaller
    /\ mutex' = t
    /\ call' = [call EXCEPT ![t].pc = "locked"]
    /\ last' = NoLast
    /\ UNCHANGED <<args, backend, error, pokemons, database, records, created, deleted>>

\* A caller panics while it holds the guard of self.pokemons: its call never
\* returns, and the guard, dropped as the thread unwinds, leaves the mutex
\* free and poisoned.  A mutex stays poisoned.
Panic(t) ==
    /\ backend = "InMemory"
    /\ call[t].pc = "locked"
    /\ mutex = t
    /\ mutex' = Poisoned
    /\ call' = [call EXCEPT ![t] = Idle]
    /\ UNCHANGED <<args, backend, error, pokemons, database, records, last, created, deleted>>

\* An operation that unwraps the result of lock(): on a poisoned mutex the
\* caller panics and its call does not return.
InMemoryPoisonedUnwrap(t, op, req) ==
    /\ backend = "InMemory"
    /\ call[t].pc = "idle"
    /\ RequestValid(op, req)
    /\ ~ErrorInjected(op)
    /\ mutex = Poisoned
    /\ last' = NoLast
    /\ UNCHANGED <<args, backend, error, pokemons, database, records, mutex, call, created, deleted>>

\* The operation op of InMemoryRepository on a poisoned mutex: lock() returns
\* Err, the arm "_ => return Err(..::Unknown)" is taken and the guard inside
\* the error is dropped.
InMemoryPoisoned(t, op, req) ==
    /\ backend = "InMemory"
    /\ call[t].pc = "idle"
    /\ RequestValid(op, req)
    /\ ~ErrorInjected(op)
    /\ mutex = Poisoned
    /\ Return(t, op, req, Err("Unknown"), req.number \in StoredNumbers, FALSE)
    /\ UNCHANGED <<args, backend, error, pokemons, database, records, mutex>>

\* What the in-memory operation op does to the list, under the lock.
InMemoryOperation(op, list, req) ==
    CASE op = "create" -> InMemoryInsert(list, NumberOf(req), NameOf(req), TypesOf(req))
      [] op = "fetch_all" -> InMemoryFetchAll(list)
      [] op = "fetch_one" -> InMemoryFetchOne(list, NumberOf(req))
      [] op = "delete" -> InMemoryDelete(list, NumberOf(req))

\* An insert that scans the list before it takes the lock, and appends under
\* the lock on the strength of that scan.
InMemoryCallStaleScan(t, op) ==
    /\ backend = "InMemory"
    /\ call[t].pc = "locked"
    /\ call[t].op = op
    /\ mutex = t
    /\ LET fresh == InMemoryOperation(op, pokemons, call[t].req)
           pokemon == PokemonNew(NumberOf(call[t].req), NameOf(call[t].req),
                                 TypesOf(call[t].req))
           out == IF op # "create" THEN fresh
                  ELSE IF call[t].existed THEN Outcome(Err("Conflict"), pokemons)
                  ELSE Outcome(Result("Ok", <<pokemon>>), Append(pokemons, pokemon))
       IN  /\ pokemons' = out.store
           /\ Return(t, op, call[t].req, out.res,
                     call[t].req.number \in StoredNumbers, TRUE)
    /\ mutex' = NoCaller
    /\ UNCHANGED <<args, backend, error, database, records>>

\* An operation that returns its errors with the mutex still held.
InMemoryCallHolding(t, op) ==
    /\ backend = "InMemory"
    /\ call[t].pc = "locked"
    /\ call[t].op = op
    /\ mutex = t
    /\ LET out == InMemoryOperation(op, pokemons, call[t].req)
       IN  /\ pokemons' = out.store
           /\ Return(t, op, call[t].req, out.res,
                     call[t].req.number \in StoredNumbers, TRUE)
           /\ mutex' = IF out.res.tag = "Ok" THEN NoCaller ELSE t
    /\ UNCHANGED <<args, backend, error, database, records>>

\* The body of an InMemoryRepository operation; the guard is dropped, and the
\* mutex freed, when it returns.
InMemoryCall(t, op) ==
    /\ backend = "InMemory"
    /\ call[t].pc = "locked"
    /\ call[t].op = op
    /\ mutex = t
    /\ LET out == InMemoryOperation(op, pokemons, call[t].req)
       IN  /\ pokemons' = out.store
           /\ Return(t, op, call[t].req, out.res,
                     call[t].req.number \in StoredNumbers, TRUE)
    /\ mutex' = NoCaller
    /\ UNCHANGED <<args, backend, error, database, records>>

\* A returned list that is a view of the guarded list, sorted.
HeldLive(t) == SortByNumber(pokemons)

\* The list a caller holds after fetch_all returned it: "lock.to_vec()" made
\* it a Vec of clones, owned by the caller.
Held(t) == call[t].got

\* InMemoryRepository::fetch_all by a caller that keeps the list it is
\* returned while other calls go on.
InMemoryFetchAllHold(t) ==
    /\ backend = "InMemory"
    /\ call[t].pc = "locked"
    /\ call[t].op = "fetch_all"
    /\ mutex = t
    /\ LET out == InMemoryOperation("fetch_all", pokemons, call[t].req)
       IN  /\ pokemons' = out.store
           /\ last' = [op |-> "fetch_all", req |-> call[t].req, repo |-> out.res,
                       ret |-> Execute("fetch_all", out.res), before |-> pokemons,
                       existed |-> FALSE, clean |-> TRUE, wasDeleted |-> FALSE]
           /\ call' = [call EXCEPT ![t] = [Idle EXCEPT !.pc = "holding", !.got = out.res.val]]
    /\ mutex' = NoCaller
    /\ UNCHANGED <<args, backend, error, database, records, created, deleted>>

\* The caller drops the list it held.
Release(t) ==
    /\ backend = "InMemory"
    /\ call[t].pc = "holding"
    /\ call' = [call EXCEPT ![t] = Idle]
    /\ UNCHANGED <<args, backend, error, pokemons, database, records, mutex, last, created, deleted>>

\* The single faults the relational operation op can meet.
SqliteFaults(op, db, req) ==
    CASE op = "create" -> SqliteInsertFaults(db, req.number, req.types)
      [] op = "fetch_all" -> SqliteFetchFaults(db, <<>>)
      [] op = "fetch_one" -> SqliteFetchFaults(db, <<req.number>>)
      [] op = "delete" -> SqliteDeleteFaults

\* What the relational operation op does to the database, under the lock.
SqliteOperation(op, db, req, fault) ==
    CASE op = "create" -> SqliteInsert(db, NumberOf(req), NameOf(req), TypesOf(req), fault)
      [] op = "fetch_all" -> SqliteFetchAll(db, fault)
      [] op = "fetch_one" -> SqliteFetchOne(db, NumberOf(req), fault)
      [] op = "delete" -> SqliteDelete(db, NumberOf(req), fault)

\* The body of a SqliteRepository operation, with at most one failing driver
\* call; the mutex is freed when it returns.
SqliteCall(t, op, fault) ==
    /\ backend = "Sqlite"
    /\ call[t].pc = "locked"
    /\ call[t].op = op
    /\ mutex = t
    /\ fault \in SqliteFaults(op, database, call[t].req)
    /\ \E out \in {SqliteOperation(op, database, call[t].req, fault)} :
           /\ database' = out.store
           /\ Return(t, op, call[t].req, out.res,
                     call[t].req.number \in StoredNumbers, fault = NoFault)
    /\ mutex' = NoCaller
    /\ UNCHANGED <<args, backend, error, pokemons, records>>

\* A fetch_all whose guard is dropped as soon as the records query is done.
SqliteFetchAllQueryUnlocking(t) ==
    /\ backend = "Sqlite"
    /\ call[t].pc = "locked"
    /\ call[t].op = "fetch_all"
    /\ mutex = t
    /\ mutex' = NoCaller
    /\ call' = [call EXCEPT ![t].pc = "assembling",
                            ![t].rows = SqliteFetchPokemonRows(database, <<>>, NoFault).rows]
    /\ UNCHANGED <<args, backend, error, pokemons, database, records, last, created, deleted>>

\* SqliteRepository::fetch_all step by step, no driver call failing.  First
\* step: the records query, under the guard taken at the top of the function.
SqliteFetchAllQuery(t) ==
    /\ backend = "Sqlite"
    /\ call[t].pc = "locked"
    /\ call[t].op = "fetch_all"
    /\ mutex = t
    /\ call' = [call EXCEPT ![t].pc = "assembling",
                            ![t].rows = SqliteFetchPokemonRows(database, <<>>, NoFault).rows]
    /\ UNCHANGED <<args, backend, error, pokemons, database, records, mutex, last, created, deleted>>

\* One iteration of the loop "for pokemon_row in pokemon_rows": the tags query
\* of the next row and the try_from of its fields; a row that does not form a
\* pokemon ends the call with Unknown.
SqliteFetchAllTypes(t) ==
    /\ backend = "Sqlite"
    /\ call[t].pc = "assembling"
    /\ Len(call[t].got) < Len(call[t].rows)
    /\ LET pokemon == SqliteAssemble(database, call[t].rows, Len(call[t].got) + 1, NoFault)
       IN  IF pokemon.ok
           THEN /\ call' = [call EXCEPT ![t].got = Append(call[t].got, pokemon.val)]
                /\ UNCHANGED <<mutex, last, created, deleted>>
           ELSE /\ Return(t, "fetch_all", call[t].req, Err("Unknown"), FALSE, TRUE)
                /\ mutex' = NoCaller
    /\ UNCHANGED <<args, backend, error, pokemons, database, records>>

\* Last step: "Ok(pokemons)"; the guard is dropped as the function returns.
SqliteFetchAllReturn(t) ==
    /\ backend = "Sqlite"
    /\ call[t].pc = "assembling"
    /\ Len(call[t].got) = Len(call[t].rows)
    /\ Return(t, "fetch_all", call[t].req, Result("Ok", call[t].got), FALSE, TRUE)
    /\ mutex' = NoCaller
    /\ UNCHANGED <<args, backend, error, pokemons, database, records>>

\* The id the remote side gives a new record with number n: ids are opaque
\* and unique; the model writes them <<n, k>>, k the least index for which no
\* record has the id and no caller still holds it from an earlier read.
FreshId(n) ==
    LET used == {records[i].id : i \in DOMAIN records} \cup {call[u].id : u \in Callers}
    IN  <<n, CHOOSE k \in 1..(Cardinality(used) + 1) :
                <<n, k>> \notin used /\ \A j \in 1..(k - 1) : <<n, j>> \in used>>

\* An operation of AirtableRepository whose HTTP calls all succeed and follow
\* each other with no other call in between.
AirtableOperation(op, table, req) ==
    LET json == AirtableFetchPokemonRows(table, <<U16From(NumberOf(req))>>, TRUE)
    IN  CASE op = "create" ->
                IF json.records # <<>> THEN Outcome(Err("Conflict"), table)
                ELSE Outcome(Result("Ok", <<PokemonNew(NumberOf(req), NameOf(req), TypesOf(req))>>),
                             AirtableCreate(table, FreshId(req.number),
                                 AirtableBody(NumberOf(req), NameOf(req), TypesOf(req))))
          [] op = "fetch_all" -> AirtableFetchAll(table, TRUE)
          [] op = "fetch_one" -> AirtableFetchOne(table, NumberOf(req), TRUE)
          [] op = "delete" ->
                IF json.records = <<>> THEN Outcome(Err("NotFound"), table)
                ELSE Outcome(Result("Ok", <<>>), AirtableRemove(table, json.records[1].id))

\* An insert whose create call follows the filtered read whatever the read
\* returned.
AirtableInsertReadUnchecked(t, req, ok) ==
    /\ backend = "Airtable"
    /\ call[t].pc = "idle"
    /\ RequestValid("create", req)
    /\ Len(records) + Cardinality({u \in Callers : call[u].pc = "post"}) < MaxRecords
    /\ call' = [call EXCEPT ![t] = [Idle EXCEPT !.pc = "post", !.op = "create", !.req = req,
                                          !.existed = req.number \in StoredNumbers]]
    /\ last' = NoLast
    /\ UNCHANGED <<args, backend, error, pokemons, database, records, mutex, created, deleted>>

\* AirtableRepository::insert, first half: the filtered read that stands for
\* the uniqueness check.  (The model starts an insert only while the table,
\* with the creates under way, has room for one more record.)
AirtableInsertRead(t, req, ok) ==
    /\ backend = "Airtable"
    /\ call[t].pc = "idle"
    /\ RequestValid("create", req)
    /\ Len(records) + Cardinality({u \in Callers : call[u].pc = "post"}) < MaxRecords
    /\ LET json == AirtableFetchPokemonRows(records, <<U16From(NumberOf(req))>>, ok)
           existed == req.number \in StoredNumbers
       IN  IF ~json.ok
           THEN Return(t, "create", req, Err("Unknown"), existed, FALSE)
           ELSE IF json.records # <<>>
                THEN Return(t, "create", req, Err("Conflict"), existed, TRUE)
                ELSE /\ call' = [call EXCEPT ![t] = [Idle EXCEPT !.pc = "post",
                                     !.op = "create", !.req = req, !.existed = existed]]
                     /\ last' = NoLast
                     /\ UNCHANGED <<created, deleted>>
    /\ UNCHANGED <<args, backend, error, pokemons, database, records, mutex>>

\* A create call that the service turns down when the table already holds the
\* number.
AirtableInsertPostUnique(t, ok) ==
    /\ backend = "Airtable"
    /\ call[t].pc = "post"
    /\ LET req == call[t].req
       IN  IF ~ok \/ req.number \in StoredNumbers
           THEN /\ Return(t, "create", req, Err("Unknown"), call[t].existed, FALSE)
                /\ UNCHANGED records
           ELSE /\ records' = AirtableCreate(records, FreshId(req.number),
                                  AirtableBody(NumberOf(req), NameOf(req), TypesOf(req)))
                /\ Return(t, "create", req,
                          Result("Ok", <<PokemonNew(NumberOf(req), NameOf(req), TypesOf(req))>>),
                          call[t].existed, TRUE)
    /\ UNCHANGED <<args, backend, error, pokemons, database, mutex>>

\* AirtableRepository::insert, second half: the POST that creates the record.
AirtableInsertPost(t, ok) ==
    /\ backend = "Airtable"
    /\ call[t].pc = "post"
    /\ LET req == call[t].req
       IN  IF ~ok
           THEN /\ Return(t, "create", req, Err("Unknown"), call[t].existed, FALSE)
                /\ UNCHANGED records
           ELSE /\ records' = AirtableCreate(records, FreshId(req.number),
                                  AirtableBody(NumberOf(req), NameOf(req), TypesOf(req)))
                /\ Return(t, "create", req,
                          Result("Ok", <<PokemonNew(NumberOf(req), NameOf(req), TypesOf(req))>>),
                          call[t].existed, TRUE)
    /\ UNCHANGED <<args, backend, error, pokemons, database, mutex>>

\* AirtableRepository::fetch_all: one GET.
AirtableFetchAllCall(t, ok) ==
    /\ backend = "Airtable"
    /\ call[t].pc = "idle"
    /\ Return(t, "fetch_all", NoReq, AirtableFetchAll(records, ok).res, FALSE, ok)
    /\ UNCHANGED <<args, backend, error, pokemons, database, records, mutex>>

\* AirtableRepository::fetch_one: one GET.
AirtableFetchOneCall(t, req, ok) ==
    /\ backend = "Airtable"
    /\ call[t].pc = "idle"
    /\ RequestValid("fetch_one", req)
    /\ Return(t, "fetch_one", req, AirtableFetchOne(records, NumberOf(req), ok).res,
              req.number \in StoredNumbers, ok)
    /\ UNCHANGED <<args, backend, error, pokemons, database, records, mutex>>

\* AirtableRepository::delete, first half: the filtered read that finds the
\* id of the first record with the number.
AirtableDeleteRead(t, req, ok) ==
    /\ backend = "Airtable"
    /\ call[t].pc = "idle"
    /\ RequestValid("delete", req)
    /\ LET json == AirtableFetchPokemonRows(records, <<U16From(NumberOf(req))>>, ok)
           existed == req.number \in StoredNumbers
       IN  IF ~json.ok
           THEN Return(t, "delete", req, Err("Unknown"), existed, FALSE)
           ELSE IF json.records = <<>>
                THEN Return(t, "delete", req, Err("NotFound"), existed, TRUE)
                ELSE /\ call' = [call EXCEPT ![t] = [Idle EXCEPT !.pc = "delete",
                                     !.op = "delete", !.req = req, !.existed = existed,
                                     !.id = json.records[1].id]]
                     /\ last' = NoLast
                     /\ UNCHANGED <<created, deleted>>
    /\ UNCHANGED <<args, backend, error, pokemons, database, records, mutex>>

\* AirtableRepository::delete, second half: DELETE {url}/{record.id}.  The
\* call fails when the network does or when no record has the id any more.
AirtableDeleteCall(t, ok) ==
    /\ backend = "Airtable"
    /\ call[t].pc = "delete"
    /\ LET req == call[t].req
           found == \E i \in DOMAIN records : records[i].id = call[t].id
       IN  IF ok /\ found
           THEN /\ records' = AirtableRemove(records, call[t].id)
                /\ Return(t, "delete", req, Result("Ok", <<>>), call[t].existed, TRUE)
           ELSE /\ Return(t, "delete", req, Err("Unknown"), call[t].existed, FALSE)
                /\ UNCHANGED records
    /\ UNCHANGED <<args, backend, error, pokemons, database, mutex>>

\* -------------------------------------------------------- specifications

InMemoryInsertCall(t) == InMemoryCall(t, "create")

InMemoryFetchAllCall(t) == InMemoryCall(t, "fetch_all")

InMemoryFetchOneCall(t) == InMemoryCall(t, "fetch_one")

InMemoryDeleteCall(t) == InMemoryCall(t, "delete")

SqliteInsertCall(t) ==
    \E fault \in SqliteInsertFaults(database, call[t].req.number, call[t].req.types) :
    SqliteCall(t, "create", fault)

SqliteFetchAllCall(t) == \E fault \in SqliteFetchFaults(database, <<>>) :
    SqliteCall(t, "fetch_all", fault)

SqliteFetchOneCall(t) == \E fault \in SqliteFetchFaults(database, <<call[t].req.number>>) :
    SqliteCall(t, "fetch_one", fault)

SqliteDeleteCall(t) == \E fault \in SqliteDeleteFaults :
    SqliteCall(t, "delete", fault)

\* One step of caller t.
Step(t) ==
    \/ \E op \in Operations : \E req \in Requests(op) : Refuse(t, op, req)
    \/ \E op \in Operations : \E req \in Requests(op) : InMemoryError(t, op, req)
    \/ \E op \in Operations : \E req \in Requests(op) : Lock(t, op, req)
    \/ InMemoryInsertCall(t)
    \/ InMemoryFetchAllCall(t)
    \/ InMemoryFetchOneCall(t)
    \/ InMemoryDeleteCall(t)
    \/ SqliteInsertCall(t)
    \/ SqliteFetchAllCall(t)
    \/ SqliteFetchOneCall(t)
    \/ SqliteDeleteCall(t)
    \/ \E req \in Requests("create"), ok \in BOOLEAN : AirtableInsertRead(t, req, ok)
    \/ \E ok \in BOOLEAN : AirtableInsertPost(t, ok)
    \/ \E ok \in BOOLEAN : AirtableFetchAllCall(t, ok)
    \/ \E req \in Requests("fetch_one"), ok \in BOOLEAN : AirtableFetchOneCall(t, req, ok)
    \/ \E req \in Requests("delete"), ok \in BOOLEAN : AirtableDeleteRead(t, req, ok)
    \/ \E ok \in BOOLEAN : AirtableDeleteCall(t, ok)

\* Callers run concurrently: any caller takes the next step.
Next == WithError \/ \E t \in Callers : Step(t)

Spec == Init /\ [][Next]_vars

\* The in-memory backend alone, its callers running concurrently.
InitInMemory == Init /\ backend = "InMemory"

StepInMemory(t) ==
    \/ \E op \in Operations : \E req \in Requests(op) : Refuse(t, op, req)
    \/ \E op \in Operations : \E req \in Requests(op) : InMemoryError(t, op, req)
    \/ \E op \in Operations : \E req \in Requests(op) : Lock(t, op, req)
    \/ InMemoryInsertCall(t)
    \/ InMemoryFetchAllCall(t)
    \/ InMemoryFetchOneCall(t)
    \/ InMemoryDeleteCall(t)

NextInMemory == WithError \/ \E t \in Callers : StepInMemory(t)

SpecInMemory == InitInMemory /\ [][NextInMemory]_vars

\* The in-memory backend with callers that may panic under the guard.
StepPoison(t) ==
    \/ \E op \in Operations : \E req \in Requests(op) : Lock(t, op, req)
    \/ InMemoryInsertCall(t)
    \/ InMemoryFetchAllCall(t)
    \/ InMemoryFetchOneCall(t)
    \/ InMemoryDeleteCall(t)
    \/ Panic(t)
    \/ \E op \in Operations : \E req \in Requests(op) : InMemoryPoisoned(t, op, req)

NextPoison == \E t \in Callers : StepPoison(t)

SpecPoison == InitInMemory /\ [][NextPoison]_vars

\* The requests made while lists are held: every number, under one name.
HoldRequests(op) == {req \in Requests(op) : op = "create" => req.name = "Charmander"}

\* The in-memory backend with callers that keep what fetch_all returned.
StepHold(t) ==
    \/ \E op \in Operations : \E req \in HoldRequests(op) : Lock(t, op, req)
    \/ InMemoryInsertCall(t)
    \/ InMemoryFetchAllHold(t)
    \/ InMemoryFetchOneCall(t)
    \/ InMemoryDeleteCall(t)
    \/ Release(t)

NextHold == \E t \in Callers : StepHold(t)

SpecHold == InitInMemory /\ [][NextHold]_vars

\* The requests of a race: those on one number.
RaceRequests(op) == {req \in Requests(op) : req.number = MaxNumber}

\* Inserts and deletes of one number racing on the in-memory backend: every
\* caller enters its operation and waits for the lock, so that calls overlap.
StepRace(t) ==
    \/ \E op \in {"create", "delete"} : \E req \in RaceRequests(op) : Invoke(t, op, req)
    \/ Acquire(t)
    \/ InMemoryInsertCall(t)
    \/ InMemoryDeleteCall(t)

NextRace == \E t \in Callers : StepRace(t)

SpecRace == InitInMemory /\ [][NextRace]_vars

\* The remote backend alone, its callers running concurrently on one number:
\* nothing orders the HTTP calls of different callers.
InitAirtable == Init /\ backend = "Airtable"

StepAirtable(t) ==
    \/ \E op \in Operations : \E req \in RaceRequests(op) : Refuse(t, op, req)
    \/ \E req \in RaceRequests("create"), ok \in BOOLEAN : AirtableInsertRead(t, req, ok)
    \/ \E ok \in BOOLEAN : AirtableInsertPost(t, ok)
    \/ \E ok \in BOOLEAN : AirtableFetchAllCall(t, ok)
    \/ \E req \in RaceRequests("fetch_one"), ok \in BOOLEAN : AirtableFetchOneCall(t, req, ok)
    \/ \E req \in RaceRequests("delete"), ok \in BOOLEAN : AirtableDeleteRead(t, req, ok)
    \/ \E ok \in BOOLEAN : AirtableDeleteCall(t, ok)

NextAirtable == \E t \in Callers : StepAirtable(t)

SpecAirtable == InitAirtable /\ [][NextAirtable]_vars

\* The three backends side by side: the same call is made on each of them,
\* one call at a time and with no failure of the medium.  last records the
\* call as the in-memory backend answered it.
Lockstep(op, req) ==
    /\ \A t \in Callers : call[t].pc = "idle"
    /\ RequestValid(op, req)
    /\ pokemons' = InMemoryOperation(op, pokemons, req).store
    /\ database' = SqliteOperation(op, database, req, NoFault).store
    /\ records' = AirtableOperation(op, records, req).store
    /\ last' = [NoLast EXCEPT !.op = op, !.req = req,
                              !.repo = InMemoryOperation(op, pokemons, req).res,
                              !.ret = Execute(op, InMemoryOperation(op, pokemons, req).res),
                              !.before = pokemons]
    /\ UNCHANGED <<args, backend, error, mutex, call, created, deleted>>

NextLockstep == \E op \in Operations : \E req \in Requests(op) : Lockstep(op, req)

SpecLockstep == InitInMemory /\ [][NextLockstep]_vars

\* The relational backend alone, its callers running concurrently, fetch_all
\* taken query by query.
InitSqlite == Init /\ backend = "Sqlite"

StepSqlite(t) ==
    \/ \E op \in {"create", "fetch_all", "delete"} : \E req \in Requests(op) : Lock(t, op, req)
    \/ SqliteInsertCall(t)
    \/ SqliteDeleteCall(t)
    \/ SqliteFetchAllQuery(t)
    \/ SqliteFetchAllTypes(t)
    \/ SqliteFetchAllReturn(t)

NextSqlite == \E t \in Callers : StepSqlite(t)

SpecSqlite == InitSqlite /\ [][NextSqlite]_vars

\* No other caller is in the middle of a call.
Alone(t) == \A u \in Callers \ {t} : call[u].pc = "idle"

\* Calls issued one at a time: a call starts only when no other is under way.
\* (The mutex already orders the in-memory and the relational calls so.)
RefuseAlone(t, op, req) == Alone(t) /\ Refuse(t, op, req)

InMemoryErrorAlone(t, op, req) == Alone(t) /\ InMemoryError(t, op, req)

LockAlone(t, op, req) == Alone(t) /\ Lock(t, op, req)

AirtableInsertReadAlone(t, req, ok) == Alone(t) /\ AirtableInsertRead(t, req, ok)

AirtableFetchAllAlone(t, ok) == Alone(t) /\ AirtableFetchAllCall(t, ok)

AirtableFetchOneAlone(t, req, ok) == Alone(t) /\ AirtableFetchOneCall(t, req, ok)

AirtableDeleteReadAlone(t, req, ok) == Alone(t) /\ AirtableDeleteRead(t, req, ok)

StepSeq(t) ==
    \/ \E op \in Operations : \E req \in Requests(op) : RefuseAlone(t, op, req)
    \/ \E op \in Operations : \E req \in Requests(op) : InMemoryErrorAlone(t, op, req)
    \/ \E op \in Operations : \E req \in Requests(op) : LockAlone(t, op, req)
    \/ InMemoryInsertCall(t)
    \/ InMemoryFetchAllCall(t)
    \/ InMemoryFetchOneCall(t)
    \/ InMemoryDeleteCall(t)
    \/ SqliteInsertCall(t)
    \/ SqliteFetchAllCall(t)
    \/ SqliteFetchOneCall(t)
    \/ SqliteDeleteCall(t)
    \/ \E req \in Requests("create"), ok \in BOOLEAN : AirtableInsertReadAlone(t, req, ok)
    \/ \E ok \in BOOLEAN : AirtableInsertPost(t, ok)
    \/ \E ok \in BOOLEAN : AirtableFetchAllAlone(t, ok)
    \/ \E req \in Requests("fetch_one"), ok \in BOOLEAN : AirtableFetchOneAlone(t, req, ok)
    \/ \E req \in Requests("delete"), ok \in BOOLEAN : AirtableDeleteReadAlone(t, req, ok)
    \/ \E ok \in BOOLEAN : AirtableDeleteCall(t, ok)

NextSeq == WithError \/ \E t \in Callers : StepSeq(t)

SpecSeq == Init /\ [][NextSeq]_vars

\* The in-memory or the relational backend with callers that enter their
\* operations concurrently, on one number, and wait for the lock.
InitFair == Init /\ backend \in {"InMemory", "Sqlite"}

\* The body of the operation caller t is in, from the lock to the return.
Body(t) ==
    /\ call[t].pc = "locked"
    /\ \/ InMemoryInsertCall(t)
       \/ InMemoryFetchAllCall(t)
       \/ InMemoryFetchOneCall(t)
       \/ InMemoryDeleteCall(t)
       \/ SqliteInsertCall(t)
       \/ SqliteFetchAllCall(t)
       \/ SqliteFetchOneCall(t)
       \/ SqliteDeleteCall(t)

\* The requests of these callers: one number, and one name for it.
FairRequests(op) ==
    IF op = "fetch_all" THEN Requests(op)
    ELSE {req \in RaceRequests(op) : op = "create" => req.name = "Charmander"}

StepFair(t) ==
    \/ \E op \in Operations : \E req \in FairRequests(op) : Enter(t, op, req)
    \/ Acquire(t)
    \/ Body(t)

NextFair == \E t \in Callers : StepFair(t)

\* A fair scheduler: a caller that holds the lock goes on to its return, and
\* a caller that waits for a lock that is free again and again gets it.
SpecFair ==
    /\ InitFair
    /\ [][NextFair]_vars
    /\ \A t \in Callers : WF_vars(Body(t)) /\ SF_vars(Acquire(t))

\* The process before main has run: any command line, no repository yet.
InitStartup ==
    /\ args \in CommandLines
    /\ backend = "Unbuilt"
    /\ error = FALSE
    /\ pokemons = <<>>
    /\ database = Database(<<>>, <<>>)
    /\ records = <<>>
    /\ mutex = NoCaller
    /\ call = [t \in Callers |-> Idle]
    /\ last = NoLast
    /\ created = [n \in 1..MaxNumber |-> <<>>]
    /\ deleted = {}

\* main: the command line is parsed (a usage error ends the process), then
\* build_repo returns the repository that api::serve or cli::run is given,
\* or panics.
Main ==
    /\ backend = "Unbuilt"
    /\ backend' = IF ParserAccepts(args) THEN BuildRepo(args.sqlite, args.airtable)
                  ELSE "Usage"
    /\ UNCHANGED <<args, error, pokemons, database, records, mutex, call, last, created, deleted>>

\* The calls of a run: inserts and deletes of one number, one at a time.
StepRun(t) ==
    \/ \E op \in {"create", "delete"} : \E req \in RaceRequests(op) : LockAlone(t, op, req)
    \/ InMemoryInsertCall(t)
    \/ InMemoryDeleteCall(t)
    \/ SqliteInsertCall(t)
    \/ SqliteDeleteCall(t)
    \/ \E req \in RaceRequests("create"), ok \in BOOLEAN : AirtableInsertReadAlone(t, req, ok)
    \/ \E ok \in BOOLEAN : AirtableInsertPost(t, ok)
    \/ \E req \in RaceRequests("delete"), ok \in BOOLEAN : AirtableDeleteReadAlone(t, req, ok)
    \/ \E ok \in BOOLEAN : AirtableDeleteCall(t, ok)

NextStartup == Main \/ \E t \in Callers : StepRun(t)

SpecStartup == InitStartup /\ [][NextStartup]_vars

\* A store the repository finds with rows in it that no create wrote: the
\* database file try_new opens, or the remote table, as others left it.  Per
\* number of RawNumbers it holds no row or one row, with the name and the
\* types of GoodFields or BadFields (number 0, an empty name, no tag and an
\* unknown tag all occur).
ForeignStores == [RawNumbers -> {<<>>} \cup {<<f>> : f \in GoodFields \cup BadFields}]

\* The rows of such a store from number n on, in ascending number.
RECURSIVE ForeignRows(_, _)
ForeignRows(held, n) ==
    IF n > MaxNumber THEN <<>>
    ELSE (IF held[n] = <<>> THEN <<>>
          ELSE <<[number |-> n, name |-> held[n][1].name, types |-> held[n][1].types]>>)
         \o ForeignRows(held, n + 1)

\* The rows of the types table that hold the tags of these rows.
RECURSIVE ForeignTypeRows(_)
ForeignTypeRows(rows) ==
    IF rows = <<>> THEN <<>>
    ELSE [i \in DOMAIN Head(rows).types |->
             [pokemon_number |-> Head(rows).number, name |-> Head(rows).types[i]]]
         \o ForeignTypeRows(Tail(rows))

\* The relational database that holds these rows.
ForeignDatabase(rows) ==
    Database([i \in DOMAIN rows |-> [number |-> rows[i].number, name |-> rows[i].name]],
             ForeignTypeRows(rows))

\* The remote table that holds these rows.
ForeignTable(rows) ==
    [i \in DOMAIN rows |-> [id |-> <<rows[i].number, 1>>, fields |-> rows[i]]]

\* The relational or the remote repository opened on such a store.
InitForeign ==
    /\ backend \in {"Sqlite", "Airtable"}
    /\ args = Launched(backend)
    /\ \E held \in ForeignStores :
           /\ database = IF backend = "Sqlite" THEN ForeignDatabase(ForeignRows(held, 0))
                          ELSE Database(<<>>, <<>>)
           /\ records = IF backend = "Airtable" THEN ForeignTable(ForeignRows(held, 0))
                         ELSE <<>>
    /\ error = FALSE
    /\ pokemons = <<>>
    /\ mutex = NoCaller
    /\ call = [t \in Callers |-> Idle]
    /\ last = NoLast
    /\ created = [n \in 1..MaxNumber |-> <<>>]
    /\ deleted = {}

\* The reads of such a store, one call at a time.
StepForeign(t) ==
    \/ \E req \in Requests("fetch_one") : RefuseAlone(t, "fetch_one", req)
    \/ \E op \in {"fetch_all", "fetch_one"} : \E req \in Requests(op) : LockAlone(t, op, req)
    \/ SqliteFetchAllCall(t)
    \/ SqliteFetchOneCall(t)
    \/ \E ok \in BOOLEAN : AirtableFetchAllAlone(t, ok)
    \/ \E req \in Requests("fetch_one"), ok \in BOOLEAN : AirtableFetchOneAlone(t, req, ok)

NextForeign == \E t \in Callers : StepForeign(t)

SpecForeign == InitForeign /\ [][NextForeign]_vars

\* ------------------------------------------------------------- properties

\* The last call reached the repository.
Called == last.repo # NotCalled

\* The catalog's content under number n, read from the storage itself: the
\* records stored with that number, in primitive form and storage order.
StoredFields(n) ==
    CASE backend = "InMemory" ->
            LET Same(p) == U16From(p.number) = n
                found == SelectSeq(pokemons, Same)
            IN  [i \in DOMAIN found |-> Response(found[i])]
      [] backend = "Sqlite" ->
            LET rows == Where(database.pokemons, "number", n)
                tags == Where(database.types, "pokemon_number", n)
            IN  [i \in DOMAIN rows |->
                    [number |-> rows[i].number, name |-> rows[i].name,
                     types |-> [k \in DOMAIN tags |-> tags[k].name]]]
      [] backend = "Airtable" ->
            LET Same(r) == r.fields.number = n
                found == SelectSeq(records, Same)
            IN  [i \in DOMAIN found |-> found[i].fields]

\* C1: whatever the interleaving of concurrent calls on the in-memory
\* backend, no two stored pokemons have the same number.
C1_UniqueNumbers ==
    \A i, j \in DOMAIN pokemons :
        U16From(pokemons[i].number) = U16From(pokemons[j].number) => i = j

\* C1's case: two pokemons are stored and an insert of a stored number has
\* just been turned down.
C1_Witness ==
    /\ backend = "InMemory"
    /\ Len(pokemons) >= 2
    /\ last.op = "create" /\ last.repo.tag = "Conflict"

\* C2 as stated: on every backend an insert returns Conflict exactly when
\* its number was stored at the time of the call.
C2_ConflictIffStored ==
    (last.op = "create" /\ Called) => (last.repo.tag = "Conflict" <=> last.existed)

\* C2, amended: an insert during which no driver call, HTTP call or injected
\* error fails returns Conflict when its number was stored at the time of the
\* call and Ok otherwise; an insert during which one fails returns Unknown,
\* whether the number was stored or not.  After an Ok the number is stored,
\* so that an insert of the same number with no delete in between and no
\* failure returns Conflict, whatever its name and types.
C2_ConflictIffStoredUnlessFailure ==
    (last.op = "create" /\ Called) =>
        /\ last.clean =>
              IF last.existed THEN last.repo.tag = "Conflict" ELSE last.repo.tag = "Ok"
        /\ ~last.clean => last.repo.tag = "Unknown"
        /\ last.repo.tag = "Ok" => last.req.number \in StoredNumbers

\* C2's case: a second insert of a number, with another name or other types
\* than the first, has returned Conflict.
C2_Witness ==
    /\ last.op = "create" /\ last.repo.tag = "Conflict" /\ last.existed
    /\ created[last.req.number] # <<>>
    /\ created[last.req.number] # <<last.req>>

\* C3: an insert that returns Conflict leaves the catalog unchanged: the
\* storage is what it was before the call, and the one record stored under
\* the number has the name and types that were stored first, not those of
\* the insert that was turned down.
C3_ConflictLeavesCatalog ==
    (last.op = "create" /\ last.repo.tag = "Conflict") =>
        /\ Store = last.before
        /\ created[last.req.number] # <<>>
        /\ StoredFields(last.req.number) = created[last.req.number]

\* C3's case: the catalog holds two numbers and an insert of one of them,
\* carrying other fields than the stored ones, has returned Conflict.
C3_Witness ==
    /\ last.op = "create" /\ last.repo.tag = "Conflict"
    /\ Cardinality(StoredNumbers) >= 2
    /\ StoredFields(last.req.number) # <<last.req>>

\* C4 as stated: on every backend fetch_one and delete return NotFound
\* whenever their number is not stored, and a delete that returns NotFound
\* leaves the storage unchanged.
C4_NotFoundWhenAbsent ==
    /\ (last.op \in {"fetch_one", "delete"} /\ Called /\ ~last.existed) =>
           last.repo.tag = "NotFound"
    /\ (last.op = "delete" /\ last.repo.tag = "NotFound") => Store = last.before

\* C4, amended: a fetch_one or delete of a number that is not stored returns
\* NotFound, or Unknown when a driver call, an HTTP call or an injected error
\* fails during it (never anything else, and NotFound when nothing fails); a
\* delete that returns NotFound leaves the storage unchanged.
C4_NotFoundWhenAbsentUnlessFailure ==
    /\ (last.op \in {"fetch_one", "delete"} /\ Called /\ ~last.existed) =>
           /\ last.repo.tag \in {"NotFound", "Unknown"}
           /\ last.clean => last.repo.tag = "NotFound"
    /\ (last.op = "delete" /\ last.repo.tag = "NotFound") =>
           Store = last.before /\ ~last.existed

\* C4's case: a delete of a number that is not stored has returned NotFound
\* while other records are stored.
C4_Witness ==
    /\ last.op = "delete" /\ last.repo.tag = "NotFound" /\ ~last.existed
    /\ StoredNumbers # {}

\* C5 as stated: from a delete(n) that returned Ok to the next successful
\* insert(n), fetch_one(n) and delete(n) return NotFound, fetch_all returns
\* no record numbered n, and an insert(n) returns Ok.
C5_DeletedStaysAbsent ==
    /\ (last.op \in {"fetch_one", "delete"} /\ Called /\ last.wasDeleted) =>
           last.repo.tag = "NotFound"
    /\ (last.op = "fetch_all" /\ Called) =>
           \A i \in DOMAIN last.ret.val : last.ret.val[i].number \notin deleted
    /\ (last.op = "create" /\ Called /\ last.wasDeleted) => last.repo.tag = "Ok"

\* C5, amended: from a delete(n) that returned Ok to the next successful
\* insert(n), calls being made one at a time, no record numbered n is stored;
\* fetch_one(n) and delete(n) return NotFound, or Unknown when a driver call,
\* an HTTP call or an injected error fails during them; a list that fetch_all
\* returns holds no record numbered n; and an insert(n) returns Ok, or Unknown
\* when such a failure occurs during it, never Conflict.
C5_DeletedStaysAbsentUnlessFailure ==
    /\ deleted \cap StoredNumbers = {}
    /\ (last.op \in {"fetch_one", "delete"} /\ Called /\ last.wasDeleted) =>
           /\ last.repo.tag \in {"NotFound", "Unknown"}
           /\ last.clean => last.repo.tag = "NotFound"
    /\ (last.op = "fetch_all" /\ Called) =>
           \A i \in DOMAIN last.ret.val : last.ret.val[i].number \notin deleted
    /\ (last.op = "create" /\ Called /\ last.wasDeleted) =>
           IF last.clean THEN last.repo.tag = "Ok" ELSE last.repo.tag = "Unknown"

\* C5's case: a number that was deleted has been inserted again, with Ok.
C5_Witness ==
    last.op = "create" /\ last.wasDeleted /\ last.repo.tag = "Ok"

\* C6: on the in-memory backend fetch_all returns exactly the stored
\* pokemons, each once, in strictly ascending number, in whatever order they
\* were inserted.
C6_FetchAllSorted ==
    (backend = "InMemory" /\ last.op = "fetch_all" /\ last.repo.tag = "Ok") =>
        LET got == last.repo.val
        IN  /\ Len(got) = Len(last.before)
            /\ \A i \in DOMAIN last.before : \E j \in DOMAIN got : got[j] = last.before[i]
            /\ \A j \in DOMAIN got : \E i \in DOMAIN last.before : got[j] = last.before[i]
            /\ \A j \in 1..(Len(got) - 1) :
                   U16From(got[j].number) < U16From(got[j + 1].number)

\* C6's case: fetch_all has returned while the list held a greater number
\* in front of a smaller one.
C6_Witness ==
    /\ backend = "InMemory"
    /\ last.op = "fetch_all" /\ last.repo.tag = "Ok"
    /\ \E i, j \in DOMAIN last.before :
           i < j /\ U16From(last.before[i].number) > U16From(last.before[j].number)

\* C7: with error injection on, every operation of the in-memory backend
\* returns Unknown, for every argument and every stored content, and leaves
\* the stored list as it was.
C7_ErrorInjection ==
    (backend = "InMemory" /\ error /\ Called) =>
        /\ last.repo = Err("Unknown")
        /\ pokemons = last.before
        /\ mutex = NoCaller

\* C7's case: with error injection on, the delete of a stored number (which
\* would succeed without it) has returned.
C7_Witness ==
    /\ backend = "InMemory" /\ error
    /\ last.op = "delete" /\ Called /\ last.existed
    /\ Len(pokemons) >= 2

\* A request that the create and fetch-one use cases must refuse: number 0,
\* an empty name, an empty list of types, a type outside the vocabulary.
InvalidRequest(op, req) ==
    \/ req.number = 0
    \/ /\ op = "create"
       /\ \/ req.name = ""
          \/ req.types = <<>>
          \/ \E i \in DOMAIN req.types :
                 req.types[i] \notin {Vocabulary[k] : k \in DOMAIN Vocabulary}

\* C8: the create and fetch-one use cases return BadRequest when a field of
\* the request is invalid; the repository is not called and the storage is
\* unchanged.
C8_InvalidRequestRefused ==
    (last.op \in {"create", "fetch_one"} /\ InvalidRequest(last.op, last.req)) =>
        /\ last.ret = BadRequest
        /\ ~Called
        /\ Store = last.before

\* C8's case: a create with a stored number (which the repository would
\* answer with Conflict) and an invalid name or invalid types has returned.
C8_Witness ==
    /\ last.op = "create" /\ last.req.number # 0 /\ last.existed
    /\ InvalidRequest("create", last.req)

\* The tags a use case can return besides BadRequest.
Tags(op) ==
    CASE op = "create" -> {"Ok", "Conflict", "Unknown"}
      [] op = "fetch_one" -> {"Ok", "NotFound", "Unknown"}
      [] op = "fetch_all" -> {"Ok", "Unknown"}
      [] op = "delete" -> {"Ok", "NotFound", "Unknown"}

\* C9: for a valid request a use case calls the repository and returns the
\* image of its result: the same tag (Ok, Conflict, NotFound, Unknown) and,
\* for Ok, every pokemon returned turned into its number, name and types, in
\* the same order.
C9_ResultImage ==
    (last.op \in Operations /\ ~InvalidRequest(last.op, last.req)) =>
        /\ Called
        /\ last.ret.tag = last.repo.tag
        /\ last.ret.tag \in Tags(last.op)
        /\ Len(last.ret.val) = (IF last.op = "delete" THEN 0 ELSE Len(last.repo.val))
        /\ \A i \in DOMAIN last.ret.val :
               /\ last.ret.val[i].number = U16From(last.repo.val[i].number)
               /\ last.ret.val[i].name = StringFrom(last.repo.val[i].name)
               /\ last.ret.val[i].types = VecFrom(last.repo.val[i].types)

\* C9's case: the fetch-one use case has passed on a NotFound.
C9_Witness ==
    last.op = "fetch_one" /\ last.repo.tag = "NotFound" /\ last.ret.tag = "NotFound"

\* C10: a create that succeeds returns the number, name and types of its
\* request, and a fetch-one of that number that follows and returns a
\* pokemon returns the same number, name and types, the types in the
\* request's order.
C10_RoundTrip ==
    /\ (last.op = "create" /\ last.ret.tag = "Ok") => last.ret.val = <<last.req>>
    /\ (last.op = "fetch_one" /\ last.ret.tag = "Ok") =>
           last.ret.val = created[last.req.number]

\* C11: records being created through the create use case only, every record
\* a backend stores, in every reachable state, is valid: its number is not
\* 0, its name is not empty, and its types are not empty and all belong to
\* the vocabulary.
C11_StoredRecordsValid ==
    /\ 0 \notin StoredNumbers
    /\ \A n \in StoredNumbers :
           \A i \in DOMAIN StoredFields(n) :
               /\ StoredFields(n)[i].number = n
               /\ ~InvalidRequest("create", StoredFields(n)[i])

\* C11's case: two records are stored and a create with a valid number and an
\* invalid name or invalid types has just been refused.
C11_Witness ==
    /\ Cardinality(StoredNumbers) >= 2
    /\ last.op = "create" /\ last.ret = BadRequest /\ last.req.number # 0

\* C12: on the in-memory backend, of the callers that concurrently insert a
\* number, exactly one gets Ok and every other gets Conflict: an insert that
\* returns is answered Ok, and becomes the insert in force for its number,
\* when no insert of that number has returned Ok since the number was last
\* absent, and is answered Conflict otherwise, whenever it entered.
C12_OneInsertWins ==
    [][\A t \in Callers :
          (backend = "InMemory" /\ call[t].pc = "locked" /\ call[t].op = "create"
              /\ call'[t].pc = "idle") =>
             IF created[call[t].req.number] = <<>>
             THEN /\ last'.repo.tag = "Ok"
                  /\ created'[call[t].req.number] = <<call[t].req>>
             ELSE /\ last'.repo.tag = "Conflict"
                  /\ call[t].req.number \in StoredNumbers
                  /\ UNCHANGED <<pokemons, created>>]_vars

\* C12's case: two callers entered an insert of the same number while it was
\* absent; one has returned Ok and the other still waits for the lock.
C12_Witness ==
    \E u \in Callers :
        /\ call[u].pc = "waiting" /\ call[u].op = "create" /\ ~call[u].existed
        /\ last.op = "create" /\ last.repo.tag = "Ok" /\ ~last.existed
        /\ last.req.number = call[u].req.number

\* C13: on the remote backend an insert that has read an empty filtered
\* result issues its create call whatever has been stored since: when the
\* call succeeds the insert returns Ok and the table gains a record with its
\* number, also when a concurrent insert has stored that number meanwhile, so
\* that two concurrent inserts of an absent number can both return Ok and
\* leave two records with the same number.
C13_CreateAfterStaleRead ==
    \A t \in Callers :
        (backend = "Airtable" /\ call[t].pc = "post") =>
            /\ ~call[t].existed
            /\ ENABLED (/\ AirtableInsertPost(t, TRUE)
                        /\ last'.repo.tag = "Ok"
                        /\ Len(records') = Len(records) + 1
                        /\ SubSeq(records', 1, Len(records)) = records
                        /\ records'[Len(records')].fields.number = call[t].req.number)

\* C13's case: an insert whose read found nothing has returned Ok and the
\* table holds two records with its number.
C13_Witness ==
    /\ backend = "Airtable"
    /\ last.op = "create" /\ last.repo.tag = "Ok" /\ ~last.existed
    /\ Len(StoredFields(last.req.number)) = 2

C16_DeleteBetweenQueries ==
    \A t, u \in Callers :
        (backend = "Sqlite" /\ call[t].pc = "assembling" /\ u # t) =>
            \E req \in Requests("delete") : ENABLED Lock(u, "delete", req)

\* C16, amended: on the relational backend no delete of another caller of
\* the same repository takes effect between fetch_all's records query and
\* its tag queries: from the records query to its return the record rows it
\* read are the rows of the table and each of them has its tag rows, and a
\* fetch_all none of whose driver calls fails lists every stored record.
C16_FetchAllExcludesDelete ==
    /\ \A t \in Callers :
           (backend = "Sqlite" /\ call[t].pc = "assembling") =>
               /\ call[t].rows = database.pokemons
               /\ \A j \in DOMAIN call[t].rows :
                      SqliteTypeCount(database, call[t].rows[j].number) > 0
    /\ (backend = "Sqlite" /\ last.op = "fetch_all") =>
           /\ last.repo.tag = "Ok"
           /\ {U16From(last.repo.val[j].number) : j \in DOMAIN last.repo.val} = StoredNumbers

\* C16's case: a fetch_all has read two record rows and has queried the tags
\* of the first of them only.
C16_Witness ==
    \E t \in Callers :
        /\ backend = "Sqlite" /\ call[t].pc = "assembling"
        /\ Len(call[t].rows) = 2 /\ Len(call[t].got) = 1

\* C17: on the relational backend, an insert that does not return Ok (Conflict,
\* failure of the record insert, of a per-tag insert or of commit) leaves both
\* tables as they were before the call: whichever driver call fails, the
\* database the insert leaves is the database it found, and the database
\* after a returned insert that was not Ok is the database before it.
C17_InsertRollsBack ==
    backend = "Sqlite" =>
        /\ \A req \in Requests("create") :
               RequestValid("create", req) =>
                   \A fault \in SqliteInsertFaults(database, req.number, req.types) :
                       LET out == SqliteOperation("create", database, req, fault)
                       IN  out.res.tag # "Ok" => out.store = database
        /\ (last.op = "create" /\ Called /\ last.repo.tag # "Ok") =>
               database = last.before

\* C17's case: with a record stored, an insert of another number with two
\* tags has met a failing driver call and returned Unknown.
C17_Witness ==
    /\ backend = "Sqlite"
    /\ last.op = "create" /\ last.repo.tag = "Unknown"
    /\ ~last.existed /\ ~last.clean
    /\ Len(last.req.types) = 2
    /\ Len(database.pokemons) >= 1
    /\ database = last.before

\* The tags stored for number n on the relational backend, in table order.
SqliteStoredTags(n) ==
    LET tags == Where(database.types, "pokemon_number", n)
    IN  [i \in DOMAIN tags |-> tags[i].name]

\* C18: on the relational backend, delete(n) returns NotFound exactly when
\* its statement affected no record row; after a delete that returned Ok no
\* tag row references n; in every reachable state each tag row references an
\* existing record row, so that the tags stored under a number are those of
\* the create in force for it, and a fetch-one that reads a re-inserted
\* record returns tags of its last insert only (all of them when no driver
\* call fails).
C18_DeleteCascades ==
    backend = "Sqlite" =>
        /\ \A req \in Requests("delete") :
               RequestValid("delete", req) =>
                   LET affected == Len(Where(database.pokemons, "number", req.number))
                       out == SqliteOperation("delete", database, req, NoFault)
                   IN  /\ out.res.tag = "NotFound" <=> affected = 0
                       /\ out.res.tag = "Ok" =>
                              /\ Where(out.store.types, "pokemon_number", req.number) = <<>>
                              /\ Where(out.store.pokemons, "number", req.number) = <<>>
        /\ (last.op = "delete" /\ Called) =>
               /\ last.repo.tag = "NotFound" => ~last.existed
               /\ (last.clean /\ ~last.existed) => last.repo.tag = "NotFound"
               /\ last.repo.tag = "Ok" =>
                      /\ SqliteStoredTags(last.req.number) = <<>>
                      /\ last.req.number \notin StoredNumbers
        /\ \A i \in DOMAIN database.types :
               database.types[i].pokemon_number \in StoredNumbers
        /\ \A n \in StoredNumbers :
               created[n] # <<>> /\ SqliteStoredTags(n) = created[n][1].types
        /\ (last.op = "fetch_one" /\ Called /\ last.repo.tag = "Ok") =>
               LET new == created[last.req.number][1].types
                   read == last.ret.val[1].types
               IN  /\ Len(read) <= Len(new) /\ read = SubSeq(new, 1, Len(read))
                   /\ last.clean => read = new

\* C18's case: a number that was deleted has been inserted again with one
\* tag, while another record is stored.
C18_Witness ==
    /\ backend = "Sqlite"
    /\ last.op = "create" /\ last.repo.tag = "Ok" /\ last.wasDeleted
    /\ Len(last.req.types) = 1
    /\ Len(database.pokemons) = 2

\* The row stored under number n does not form valid value objects: its
\* number is 0, its name empty, or its tags empty or outside the vocabulary.
InvalidRow(n) ==
    /\ n \in StoredNumbers
    /\ n = 0 \/ InvalidRequest("create", StoredFields(n)[1])

\* C19: on the relational and the remote backend, a fetch_all made while some
\* stored row does not form valid value objects returns Unknown, never a
\* list; a fetch_one of the number of such a row returns Unknown, not
\* NotFound.
C19_InvalidRowsUnknown ==
    (backend \in {"Sqlite", "Airtable"} /\ Called) =>
        /\ (last.op = "fetch_all" /\ \E n \in StoredNumbers : InvalidRow(n)) =>
               last.repo.tag = "Unknown"
        /\ (last.op = "fetch_one" /\ InvalidRow(last.req.number)) =>
               last.repo.tag = "Unknown"

\* The failures of rows.next() while the rows of a query are stepped through.
StepFaults(filter) ==
    {fault \in SqliteFetchFaults(database, filter) :
        fault.site \in {"rows.step", "types.step"}}

\* C20: on the relational backend, whatever the tables hold, a fetch_all or a
\* fetch_one during which a step through the rows of the records query or of
\* a tags query fails returns Unknown: not Ok with the rows read so far, and
\* not NotFound for a stored record.
C20_StepFailureUnknown ==
    backend = "Sqlite" =>
        /\ \A fault \in StepFaults(<<>>) :
               SqliteOperation("fetch_all", database, NoReq, fault).res.tag = "Unknown"
        /\ \A req \in Requests("fetch_one") :
               RequestValid("fetch_one", req) =>
                   \A fault \in StepFaults(<<req.number>>) :
                       SqliteOperation("fetch_one", database, req, fault).res.tag = "Unknown"

\* C21: on the remote backend every step of an insert is one HTTP call.  The
\* first is the filtered read: when it returns the insert at once, the answer
\* is Unknown (the read failed) or Conflict (the read was not empty) and the
\* table is as before, no create call having been made; the insert goes on
\* to its create call only when no record has its number.  The create call
\* is made once: whether it succeeds (one record more, Ok) or fails (the same
\* table, Unknown) the insert has returned, and nothing is tried again.
C21_ReadThenCreateOnce ==
    [][backend = "Airtable" =>
          /\ (call' = call /\ last'.op = "create" /\ last'.repo # NotCalled) =>
                 /\ records' = records
                 /\ last'.repo.tag \in {"Unknown", "Conflict"}
                 /\ last'.repo.tag = "Unknown" <=> ~last'.clean
                 /\ last'.repo.tag = "Conflict" => last'.req.number \in StoredNumbers
          /\ \A t \in Callers :
                 /\ (call[t].pc = "idle" /\ call'[t].pc = "post") =>
                        /\ call'[t].req.number \notin StoredNumbers
                        /\ records' = records
                 /\ (call[t].pc = "post" /\ call'[t] # call[t]) =>
                        /\ call'[t].pc = "idle"
                        /\ last'.op = "create" /\ last'.req = call[t].req
                        /\ IF last'.clean
                           THEN last'.repo.tag = "Ok" /\ Len(records') = Len(records) + 1
                           ELSE last'.repo.tag = "Unknown" /\ records' = records
          /\ records' # records =>
                 \E t \in Callers : call[t].pc \in {"post", "delete"} /\ call'[t].pc = "idle"]_vars

\* C21's case: an insert has just been answered Conflict by its read, with
\* no create call, while the create call of another insert is still to come.
C21_Witness ==
    /\ backend = "Airtable"
    /\ last.op = "create" /\ last.repo.tag = "Conflict"
    /\ \E u \in Callers : call[u].pc = "post"

\* C22: on the in-memory backend, once the lock is poisoned every insert,
\* fetch_all, fetch_one and delete that is made returns Unknown (the call
\* returns: it does not panic) and leaves the stored list as it was, and the
\* call that has returned last returned Unknown from the list as it is.
C22_PoisonedUnknown ==
    (backend = "InMemory" /\ mutex = Poisoned) =>
        /\ \A t \in Callers : \A op \in Operations : \A req \in Requests(op) :
               RequestValid(op, req) =>
                   ENABLED (/\ InMemoryPoisoned(t, op, req)
                            /\ last'.op = op /\ last'.req = req
                            /\ last'.ret.tag = "Unknown"
                            /\ pokemons' = pokemons
                            /\ mutex' = Poisoned)
        /\ Called => (last.repo.tag = "Unknown" /\ last.before = pokemons)

\* C22's case: with two records stored and the lock poisoned, a delete of a
\* stored number has returned Unknown.
C22_Witness ==
    /\ backend = "InMemory" /\ mutex = Poisoned
    /\ Len(pokemons) = 2
    /\ last.op = "delete" /\ last.repo.tag = "Unknown" /\ last.existed

\* C23: on the in-memory backend the step in which fetch_all or fetch_one
\* returns leaves the stored list as it is, order included; the list
\* fetch_all returns is the stored list sorted by number, and while the
\* caller holds it no insert or delete made afterwards changes it.
C23_FetchLeavesList ==
    [][backend = "InMemory" =>
          \A t \in Callers :
              /\ (call[t].pc = "locked" /\ call[t].op \in {"fetch_all", "fetch_one"}
                      /\ call'[t].pc # "locked") =>
                     pokemons' = pokemons
              /\ (call[t].pc = "locked" /\ call'[t].pc = "holding") =>
                     Held(t)' = SortByNumber(pokemons)
              /\ (call[t].pc = "holding" /\ call'[t].pc = "holding") =>
                     Held(t)' = Held(t)]_vars

\* C23's case: a caller holds the two records fetch_all returned, in
\* ascending number; one of them has been deleted since and the other was
\* stored behind it.
C23_Witness ==
    \E t \in Callers :
        /\ backend = "InMemory" /\ call[t].pc = "holding"
        /\ Len(Held(t)) = 2
        /\ Len(pokemons) = 1
        /\ pokemons[1] = Held(t)[1]
        /\ last.op = "delete" /\ last.repo.tag = "Ok"
        /\ last.before = <<Held(t)[2], Held(t)[1]>>

\* C24: startup selects one backend, kept for the whole run.  When the remote
\* backend is requested and its construction fails, or the relational
\* backend is the one requested and its construction fails, startup aborts:
\* no backend is used.  The in-memory backend is selected only when neither
\* of the two was requested.  Once startup is over the backend never changes.
C24_BackendSelectedOnce ==
    [][/\ args' = args
       /\ backend # "Unbuilt" => backend' = backend
       /\ (backend = "Unbuilt" /\ backend' # "Unbuilt") =>
              /\ backend' \in Backends \cup {"Panic", "Usage"}
              /\ (Len(args.airtable) = 2
                      /\ ~AirtableTryNew(args.airtable[1], args.airtable[2])) =>
                     backend' = "Panic"
              /\ (args.airtable = <<>> /\ args.sqlite # <<>>
                      /\ ~SqliteTryNew(args.sqlite[1])) =>
                     backend' = "Panic"
              /\ backend' = "InMemory" => (args.sqlite = <<>> /\ args.airtable = <<>>)
              /\ backend' = "Sqlite" => (args.sqlite # <<>> /\ SqliteTryNew(args.sqlite[1]))
              /\ backend' = "Airtable" =>
                     (Len(args.airtable) = 2
                         /\ AirtableTryNew(args.airtable[1], args.airtable[2]))]_vars

\* C24's case: the remote backend was requested and could not be built, the
\* relational one was requested too and its file opens: startup has aborted.
C24_Witness ==
    /\ args = [sqlite |-> <<"pokedex.db">>, airtable |-> <<"key", "nowhere">>]
    /\ backend = "Panic"

\* The records with number n, in table order.
RowsOf(table, n) == SelectSeq(table, LAMBDA r : r.fields.number = n)

\* The remote delete that returned last returned Ok while the table held two
\* records with its number.
DeletedOneOfTwo ==
    /\ backend = "Airtable"
    /\ last.op = "delete" /\ last.repo.tag = "Ok"
    /\ Len(RowsOf(last.before, last.req.number)) = 2

\* C25: on the remote backend delete(n) removes only the first record the
\* filtered read returned; when the table held two records with number n, a
\* fetch_one(n) that follows a delete(n) that returned Ok returns a record,
\* not NotFound.
C25_DeleteThenFetchOne ==
    DeletedOneOfTwo =>
        LET n == last.req.number
            first == RowsOf(last.before, n)[1]
        IN  /\ records = SelectSeq(last.before, LAMBDA r : r # first)
            /\ \A ok \in BOOLEAN :
                   AirtableFetchOne(records, NumberOf(last.req), ok).res.tag = "Ok"

\* C25, amended: on the remote backend delete(n) removes only the first
\* record the filtered read returned; when the table held two records with
\* number n, a fetch_one(n) that follows a delete(n) that returned Ok returns
\* the record that is left when its read succeeds and Unknown when its read
\* fails, never NotFound.
C25_DeleteThenFetchOneUnlessFailure ==
    DeletedOneOfTwo =>
        LET n == last.req.number
            first == RowsOf(last.before, n)[1]
            second == RowsOf(last.before, n)[2]
        IN  /\ records = SelectSeq(last.before, LAMBDA r : r # first)
            /\ AirtableFetchOne(records, NumberOf(last.req), TRUE).res
                   = Result("Ok", <<AirtableParse(second).val>>)
            /\ AirtableFetchOne(records, NumberOf(last.req), FALSE).res.tag = "Unknown"

\* C25's case: two inserts have left two records with one number and a
\* delete of that number has returned Ok.
C25_Witness ==
    DeletedOneOfTwo /\ Len(records) = 1

\* C26: on the in-memory and the relational backend a call takes the one
\* lock of its repository once, and the lock is free again when the call has
\* returned, whatever it returned: only a caller inside its operation holds
\* the lock.  So the callers never all wait for a lock that is held, and
\* under a fair scheduler every call that has been made returns.
C26_EveryCallReturns ==
    /\ [](/\ \A t \in Callers : mutex = t <=> call[t].pc = "locked"
          /\ mutex \in Callers \cup {NoCaller}
          /\ (\A t \in Callers : call[t].pc = "waiting") => mutex = NoCaller)
    /\ [][\A t \in Callers :
              /\ (call[t].pc = "waiting" /\ call'[t] # call[t]) =>
                     (call'[t].pc = "locked" /\ mutex = NoCaller /\ mutex' = t)
              /\ (call[t].pc = "locked" /\ call'[t] # call[t]) =>
                     (call'[t].pc = "idle" /\ mutex' = NoCaller
                         /\ last'.op = call[t].op /\ last'.repo # NotCalled)]_vars
    /\ \A t \in Callers : (call[t].pc # "idle") ~> (call[t].pc = "idle")

\* C26's case: every caller but one waits for the lock, which the last one
\* holds.
C26_Witness ==
    \E t \in Callers :
        /\ mutex = t
        /\ \A u \in Callers \ {t} : call[u].pc = "waiting"

====
